---- MODULE Spec2Model ----
(***************************************************************************)
(* Mareographic interruption system: InterruptionSystem (the station),     *)
(* its sampling thread, the process-wide signal table it dispatches alerts *)
(* through, and the callers of start_system / stop_system.                 *)
(*                                                                         *)
(* Units: water level in centimetres, temperature in tenths of a degree,   *)
(* wind speed in tenths of km/h, intervals in tenths of a second, so that  *)
(* every threshold of the source is an integer.                            *)
(***************************************************************************)
EXTENDS Integers, Sequences, FiniteSets, TLC

\* ---------------------------------------------------------------- bounds
MaxThreads == 1   \* sampling threads alive at once
MaxAlerts == 1    \* Interruption objects created per station
MaxSystems == 2   \* InterruptionSystem objects

Systems == 1..MaxSystems

\* ------------------------------------------------------- execution contexts
\* The main thread (the only one signal.signal accepts, and the one Python
\* runs signal handlers in), one auxiliary caller thread, the sampling threads.
Main == <<"main", 0>>
Aux == <<"aux", 0>>
Loop(i) == <<"loop", i>>
LoopThreads == {Loop(i) : i \in 1..(MaxThreads + 1)}
Callers == {Main, Aux}
Contexts == Callers \cup LoopThreads

\* ------------------------------------------------------------ base types
SENSOR_FAILURE == "SENSOR_FAILURE"
EXTREME_CONDITIONS == "EXTREME_CONDITIONS"
InterruptionType == {SENSOR_FAILURE, EXTREME_CONDITIONS}

FUNCTIONING == "functioning"
READ_FAILURE == "read_failure"
DISCONNECTED == "disconnected"
SensorState == {FUNCTIONING, READ_FAILURE, DISCONNECTED}

Signals == {"SIGINT", "SIGBREAK"}

\* InterruptionType.value: the signal number an alert kind is an alias of.
SignalOf(type) == IF type = SENSOR_FAILURE THEN "SIGINT" ELSE "SIGBREAK"

\* InterruptionType(signum)
TypeOfSignal(sig) == IF sig = "SIGINT" THEN SENSOR_FAILURE ELSE EXTREME_CONDITIONS

SensorData(level, temp, wind, state) ==
  [water_level |-> level, temperature |-> temp, wind_speed |-> wind, state |-> state]

NoData == SensorData(0, 0, 0, "none")

\* A message is what the f-string holds: the failed sensor state (SENSOR
\* FAILURE: <state>) and the ' | '-joined conditions, each a label and the
\* value formatted into it.
Message(failure, conditions) == [failure |-> failure, conditions |-> conditions]

NoMessage == Message("none", <<>>)

Condition(label, value) == [label |-> label, value |-> value]

Interruption(type, station, message, data, seq) ==
  [type |-> type, station_id |-> station, message |-> message,
   sensor_data |-> data, seq |-> seq]

\* getattr(self, '_last_interruption', None)
NoInterruption == Interruption("none", 0, NoMessage, NoData, 0)

DefaultConfig ==
  [high_tide_threshold |-> 250, extreme_tide_threshold |-> 400,
   extreme_temp_min |-> -50, extreme_temp_max |-> 350,
   extreme_wind_max |-> 1200,
   min_reading_interval |-> 5, max_reading_interval |-> 30]

ZeroStatistics == [total_interruptions |-> 0, sensor_failure |-> 0, extreme_conditions |-> 0]

\* --------------------------------------------------- _evaluate_conditions
\* `if` in place of `elif`: both tide labels are appended.
TideBothLabels(data, cfg) ==
  (IF data.water_level >= cfg.extreme_tide_threshold
     THEN <<Condition("Extreme tide", data.water_level)>> ELSE <<>>)
  \o (IF data.water_level >= cfg.high_tide_threshold
        THEN <<Condition("High tide", data.water_level)>> ELSE <<>>)

TideConditions(data, cfg) ==
  IF data.water_level >= cfg.extreme_tide_threshold
    THEN <<Condition("Extreme tide", data.water_level)>>
    ELSE IF data.water_level >= cfg.high_tide_threshold
      THEN <<Condition("High tide", data.water_level)>>
      ELSE <<>>

\* The low-temperature comparison turned round.
TempLowReversed(data, cfg) ==
  IF data.temperature >= cfg.extreme_temp_min
    THEN <<Condition("Extreme low temp", data.temperature)>>
    ELSE IF data.temperature >= cfg.extreme_temp_max
      THEN <<Condition("Extreme high temp", data.temperature)>>
      ELSE <<>>

TempConditions(data, cfg) ==
  IF data.temperature <= cfg.extreme_temp_min
    THEN <<Condition("Extreme low temp", data.temperature)>>
    ELSE IF data.temperature >= cfg.extreme_temp_max
      THEN <<Condition("Extreme high temp", data.temperature)>>
      ELSE <<>>

WindConditions(data, cfg) ==
  IF data.wind_speed >= cfg.extreme_wind_max
    THEN <<Condition("Extreme wind", data.wind_speed)>>
    ELSE <<>>

GenerateCall(type, message) == [type |-> type, message |-> message]

\* The PRIORITY 2 block with the wind checked first and the tide last.
ExtremeCallsWindFirst(data, cfg) ==
  LET extreme_conditions ==
        WindConditions(data, cfg) \o TempConditions(data, cfg) \o TideConditions(data, cfg)
  IN IF extreme_conditions # <<>>
       THEN <<GenerateCall(EXTREME_CONDITIONS, Message("none", extreme_conditions))>>
       ELSE <<>>

\* The PRIORITY 2 block: the calls of _generate_interruption it makes.
ExtremeCalls(data, cfg) ==
  LET extreme_conditions ==
        TideConditions(data, cfg) \o TempConditions(data, cfg) \o WindConditions(data, cfg)
  IN IF extreme_conditions # <<>>
       THEN <<GenerateCall(EXTREME_CONDITIONS, Message("none", extreme_conditions))>>
       ELSE <<>>

\* The extreme conditions checked before the sensor state.
EvaluateExtremeFirst(data, cfg) ==
  IF ExtremeCalls(data, cfg) # <<>>
    THEN ExtremeCalls(data, cfg)
    ELSE IF data.state # FUNCTIONING
      THEN <<GenerateCall(SENSOR_FAILURE, Message(data.state, <<>>))>>
      ELSE <<>>

\* The `return` after the sensor-failure alert left out.
EvaluateNoReturn(data, cfg) ==
  (IF data.state # FUNCTIONING
     THEN <<GenerateCall(SENSOR_FAILURE, Message(data.state, <<>>))>> ELSE <<>>)
  \o ExtremeCalls(data, cfg)

\* The calls of _generate_interruption one run of _evaluate_conditions makes,
\* in order.
EvaluateConditions(data, cfg) ==
  IF data.state # FUNCTIONING
    THEN <<GenerateCall(SENSOR_FAILURE, Message(data.state, <<>>))>>
    ELSE ExtremeCalls(data, cfg)

\* ------------------------------------------------------------------ state
VARIABLES
  scope,              \* how many sampling threads and alerts a run explores
  live,               \* the InterruptionSystem objects constructed so far
  running,            \* self.running
  shutdown_requested, \* self._shutdown_requested
  monitor_thread,     \* self.monitor_thread
  handlers,           \* self.handlers
  config,             \* self.config
  statistics,         \* self.statistics
  last_interruption,  \* self._last_interruption
  alert_seq,          \* Interruption objects the station has created
  sig_handler,        \* the process's signal table: signal.signal(sig, f)
  sig_pending,        \* signals tripped and not yet handled by the main thread
  terminated,         \* the process was ended by a signal's default action
  pc,                 \* where each thread stands
  self,               \* the station whose method a thread is running
  data,               \* the local `data` of _monitor_sensors / _evaluate_conditions
  todo,               \* calls of _generate_interruption the evaluation has yet to make
  eval,               \* the evaluation of `data`: the configuration read, the calls
                      \* decided, the handlers registered at that moment
  made,               \* Interruption objects created by the current evaluation
  err,                \* the exception the caller's last call ended with
  calls,              \* invocations of registered handlers, in order
  shutdown_runs,      \* calls of stop_system that passed its guard since the last start
  final_stats,        \* _show_final_statistics runs since the last start
  stations,           \* StationManager.stations: the object held under each identifier
  pending,            \* the items of kwargs an update_configuration has yet to visit
  snapshot,           \* what the caller's last get_system_state returned
  reg,                \* the counter value a `+= 1` has loaded and not yet stored
  timer,              \* time left of the thread's time.sleep or join(timeout)
  interval,           \* the local `interval` of _monitor_sensors
  raisers,            \* the stations whose raise_signal tripped a pending signal
  stop_time,          \* time the caller has spent in its stop_system so far
  reported,           \* the keys the caller's last update_configuration printed as invalid
  registered          \* the handler the latest register_handler call was given, per kind

vars ==
  <<scope, live, running, shutdown_requested, monitor_thread, handlers, config, statistics,
    last_interruption, alert_seq, sig_handler, sig_pending, terminated, pc, self, data,
    todo, eval, made, err, calls, shutdown_runs, final_stats, stations, pending, snapshot,
    reg, timer, interval, raisers, stop_time, reported, registered>>

stationVars ==
  <<scope, live, running, shutdown_requested, monitor_thread, handlers, config, statistics,
    last_interruption, alert_seq>>

signalVars == <<sig_handler, sig_pending, terminated>>

localVars == <<data, todo, eval, made>>

ghostVars == <<calls, shutdown_runs, final_stats>>

\* The manager, and the state of the calls and waits in progress.
callVars == <<stations, pending, snapshot, reg, timer, interval, stop_time, reported, registered>>

restVars == <<callVars, raisers>>

\* Station identifiers handed to StationManager.add_station.
StationIds == {"A", "B"}

\* No InterruptionSystem object.
NoSystem == 0

\* get_system_state has not been called.
NoSnapshot == [running |-> FALSE, statistics |-> ZeroStatistics, configuration |-> DefaultConfig,
               taken |-> FALSE]

NoThread == <<"none", 0>>

NoHandler == "none"

\* An entry of the signal table: which function, bound to which station.
SigEntry(f, s) == [f |-> f, sys |-> s]

SIG_DFL == SigEntry("SIG_DFL", 0)

NoHandlers == [k \in InterruptionType |-> NoHandler]

NotEvaluated == [done |-> FALSE, cfg |-> DefaultConfig, calls |-> <<>>, handlers |-> NoHandlers]

\* A process in which the objects of `objects` have been constructed and the
\* signal table is `table`; nothing has been started.
InitProcess(objects, table, threads, alerts) ==
  /\ scope = [threads |-> threads, alerts |-> alerts]
  /\ live = objects
  /\ running = [x \in Systems |-> FALSE]
  /\ shutdown_requested = [x \in Systems |-> FALSE]
  /\ monitor_thread = [x \in Systems |-> NoThread]
  /\ handlers = [x \in Systems |-> NoHandlers]
  /\ config = [x \in Systems |-> DefaultConfig]
  /\ statistics = [x \in Systems |-> ZeroStatistics]
  /\ last_interruption = [x \in Systems |-> NoInterruption]
  /\ alert_seq = [x \in Systems |-> 0]
  /\ sig_handler = table
  /\ sig_pending = [g \in Signals |-> FALSE]
  /\ terminated = FALSE
  /\ pc = [t \in Contexts |-> IF t \in Callers THEN "idle" ELSE "unborn"]
  /\ self = [t \in Contexts |-> 0]
  /\ data = [t \in Contexts |-> NoData]
  /\ todo = [t \in Contexts |-> <<>>]
  /\ eval = [t \in Contexts |-> NotEvaluated]
  /\ made = [t \in Contexts |-> <<>>]
  /\ err = [c \in Callers |-> "none"]
  /\ calls = <<>>
  /\ shutdown_runs = [x \in Systems |-> 0]
  /\ final_stats = [x \in Systems |-> 0]
  /\ stations = [id \in StationIds |-> NoSystem]
  /\ pending = [c \in Callers |-> <<>>]
  /\ snapshot = [c \in Callers |-> NoSnapshot]
  /\ reg = [t \in Contexts |-> 0]
  /\ registered = [s \in Systems |-> [type \in InterruptionType |-> NoHandler]]
  /\ timer = [t \in Contexts |-> 0]
  /\ interval = [t \in Contexts |-> 0]
  /\ raisers = [g \in Signals |-> {}]
  /\ stop_time = [c \in Callers |-> 0]
  /\ reported = [c \in Callers |-> {}]

\* The signal table an InterruptionSystem's constructor leaves:
\* InterruptionMonitor.__init__ takes both alert signals for the monitor's own
\* _handle_signal.
MonitorTable(s) == [g \in Signals |-> SigEntry("monitor._handle_signal", s)]

\* InterruptionSystem.__init__ on a fresh process.
InitStation(s, threads, alerts) == InitProcess({s}, MonitorTable(s), threads, alerts)

\* Python's signal table at start-up: its own handler for SIGINT, the
\* default action for SIGBREAK.
StartupTable ==
  [g \in Signals |-> IF g = "SIGINT" THEN SigEntry("default_int_handler", NoSystem) ELSE SIG_DFL]

\* StationManager.__init__ on a fresh process: no station yet.
InitManager(threads, alerts) == InitProcess({}, StartupTable, threads, alerts)

Init == InitStation(1, MaxThreads, MaxAlerts)

\* ------------------------------------------------------- register_handler
\* The callables handed to register_handler.
HandlerNames == {"h1", "h2"}

\* register_handler keeping the handler a kind already has.
RegisterHandlerKeepFirst(s, type, h) ==
  /\ ~terminated
  /\ pc[Main] = "idle"
  /\ s \in live
  /\ handlers' = [handlers EXCEPT ![s][type] = IF @ = NoHandler THEN h ELSE @]
  /\ sig_handler' = [sig_handler EXCEPT ![SignalOf(type)] = SigEntry("_signal_handler", s)]
  /\ registered' = [registered EXCEPT ![s][type] = h]
  /\ UNCHANGED <<scope, live, running, shutdown_requested, monitor_thread, config, statistics,
                 last_interruption, alert_seq, sig_pending, terminated, pc, self,
                 localVars, err, ghostVars>>
  /\ UNCHANGED <<stations, pending, snapshot, reg, timer, interval, raisers, stop_time,
                 reported>>

RegisterHandler(s, type, h) ==
  /\ ~terminated
  /\ pc[Main] = "idle"
  /\ s \in live
  /\ handlers' = [handlers EXCEPT ![s][type] = h]
  /\ sig_handler' = [sig_handler EXCEPT ![SignalOf(type)] = SigEntry("_signal_handler", s)]
  /\ registered' = [registered EXCEPT ![s][type] = h]
  /\ UNCHANGED <<scope, live, running, shutdown_requested, monitor_thread, config, statistics,
                 last_interruption, alert_seq, sig_pending, terminated, pc, self,
                 localVars, err, ghostVars>>
  /\ UNCHANGED <<stations, pending, snapshot, reg, timer, interval, raisers, stop_time,
                 reported>>

\* ----------------------------------------------------------- start_system
\* A thread that is not running: never started, or returned from its loop.
Free(t) == pc[t] \in {"unborn", "done"}

\* The thread object start_system creates (the first free one stands for it).
NewThread == Loop(CHOOSE i \in 1..scope.threads :
                    /\ Free(Loop(i))
                    /\ \A j \in 1..(i - 1) : ~Free(Loop(j)))

StartSystem(s) ==
  /\ ~terminated
  /\ pc[Main] = "idle"
  /\ s \in live
  /\ \E i \in 1..scope.threads : Free(Loop(i))
  /\ running' = [running EXCEPT ![s] = TRUE]
  /\ shutdown_requested' = [shutdown_requested EXCEPT ![s] = FALSE]
  /\ sig_handler' = [sig_handler EXCEPT !["SIGINT"] = SigEntry("_handle_shutdown", s)]
  /\ monitor_thread' = [monitor_thread EXCEPT ![s] = NewThread]
  /\ pc' = [pc EXCEPT ![NewThread] = "while"]
  /\ self' = [self EXCEPT ![NewThread] = s]
  /\ err' = [err EXCEPT ![Main] = "none"]
  /\ shutdown_runs' = [shutdown_runs EXCEPT ![s] = 0]
  /\ final_stats' = [final_stats EXCEPT ![s] = 0]
  /\ UNCHANGED <<scope, live, handlers, config, statistics, last_interruption, alert_seq,
                 sig_pending, terminated, localVars, calls>>
  /\ UNCHANGED restVars

\* ------------------------------------------------------------ stop_system
\* A caller enters stop_system.
StopSystem(c, s) ==
  /\ ~terminated
  /\ pc[c] = "idle"
  /\ s \in live
  /\ pc' = [pc EXCEPT ![c] = "stop_check"]
  /\ self' = [self EXCEPT ![c] = s]
  /\ err' = [err EXCEPT ![c] = "none"]
  /\ stop_time' = [stop_time EXCEPT ![c] = 0]
  /\ UNCHANGED <<stationVars, signalVars, localVars, ghostVars, stations, pending, snapshot,
                 reg, timer, interval, raisers, reported, registered>>

\* The guard left out: every call runs the shutdown body.
StopGuardNoReturn(c) ==
  /\ ~terminated
  /\ pc[c] = "stop_check"
  /\ pc' = [pc EXCEPT ![c] = "stop_running"]
  /\ shutdown_runs' = [shutdown_runs EXCEPT ![self[c]] = @ + 1]
  /\ UNCHANGED <<stationVars, signalVars, self, localVars, err, calls, final_stats>>
  /\ UNCHANGED restVars

\* if not self.running: return
StopGuard(c) ==
  /\ ~terminated
  /\ pc[c] = "stop_check"
  /\ IF ~running[self[c]]
       THEN /\ pc' = [pc EXCEPT ![c] = "idle"]
            /\ UNCHANGED shutdown_runs
       ELSE /\ pc' = [pc EXCEPT ![c] = "stop_running"]
            /\ shutdown_runs' = [shutdown_runs EXCEPT ![self[c]] = @ + 1]
  /\ UNCHANGED <<stationVars, signalVars, self, localVars, err, calls, final_stats>>
  /\ UNCHANGED restVars

\* self.running = False
StopSetRunning(c) ==
  /\ ~terminated
  /\ pc[c] = "stop_running"
  /\ running' = [running EXCEPT ![self[c]] = FALSE]
  /\ pc' = [pc EXCEPT ![c] = "stop_shutdown"]
  /\ UNCHANGED <<scope, live, shutdown_requested, monitor_thread, handlers, config, statistics,
                 last_interruption, alert_seq, signalVars, self, localVars, err, ghostVars>>
  /\ UNCHANGED restVars

\* self._shutdown_requested = True
StopSetShutdown(c) ==
  /\ ~terminated
  /\ pc[c] = "stop_shutdown"
  /\ shutdown_requested' = [shutdown_requested EXCEPT ![self[c]] = TRUE]
  /\ pc' = [pc EXCEPT ![c] = "stop_join"]
  /\ UNCHANGED <<scope, live, running, monitor_thread, handlers, config, statistics,
                 last_interruption, alert_seq, signalVars, self, localVars, err, ghostVars>>
  /\ UNCHANGED restVars

\* monitor_thread.join(timeout=2): returns when the thread has ended or the
\* two seconds have passed, whichever comes first.
StopJoin(c) ==
  /\ ~terminated
  /\ pc[c] = "stop_join"
  /\ pc' = [pc EXCEPT ![c] = "stop_restore"]
  /\ UNCHANGED <<stationVars, signalVars, self, localVars, err, ghostVars>>
  /\ UNCHANGED restVars

\* signal.signal(SIGINT, SIG_DFL): ValueError outside the main thread, which
\* ends the call before the final statistics.
StopRestore(c) ==
  /\ ~terminated
  /\ pc[c] = "stop_restore"
  /\ IF c = Main
       THEN /\ sig_handler' = [sig_handler EXCEPT !["SIGINT"] = SIG_DFL]
            /\ pc' = [pc EXCEPT ![c] = "stop_stats"]
            /\ UNCHANGED err
       ELSE /\ err' = [err EXCEPT ![c] = "ValueError"]
            /\ pc' = [pc EXCEPT ![c] = "idle"]
            /\ UNCHANGED sig_handler
  /\ UNCHANGED <<stationVars, sig_pending, terminated, self, localVars, ghostVars>>
  /\ UNCHANGED restVars

\* self._show_final_statistics()
StopStats(c) ==
  /\ ~terminated
  /\ pc[c] = "stop_stats"
  /\ final_stats' = [final_stats EXCEPT ![self[c]] = @ + 1]
  /\ pc' = [pc EXCEPT ![c] = "idle"]
  /\ UNCHANGED <<stationVars, signalVars, self, localVars, err, calls, shutdown_runs>>
  /\ UNCHANGED restVars

\* ------------------------------------------------------ signal handlers
\* The Python-level handler of `sig` run by the main thread: what the signal
\* table holds for it at that moment.
HandlerRun(sig) ==
  LET h == sig_handler[sig]
      type == TypeOfSignal(sig)
  IN IF h.f = "_handle_shutdown"
       THEN /\ shutdown_requested' = [shutdown_requested EXCEPT ![h.sys] = TRUE]
            /\ running' = [running EXCEPT ![h.sys] = FALSE]
            /\ UNCHANGED calls
       ELSE /\ UNCHANGED <<running, shutdown_requested>>
            /\ IF /\ h.f = "_signal_handler"
                  /\ handlers[h.sys][type] # NoHandler
                  /\ last_interruption[h.sys] # NoInterruption
                 THEN calls' = Append(calls, [sys |-> h.sys, handler |-> handlers[h.sys][type],
                                              type |-> type, arg |-> last_interruption[h.sys]])
                 ELSE UNCHANGED calls

\* The main thread handles a tripped signal between two of its bytecodes.
DeliverSignal(sig) ==
  /\ ~terminated
  /\ sig_pending[sig]
  /\ sig_pending' = [sig_pending EXCEPT ![sig] = FALSE]
  /\ HandlerRun(sig)
  /\ UNCHANGED <<scope, live, monitor_thread, handlers, config, statistics, last_interruption,
                 alert_seq, sig_handler, terminated, pc, self, localVars, err,
                 shutdown_runs, final_stats>>
  /\ raisers' = [raisers EXCEPT ![sig] = {}]
  /\ UNCHANGED callVars

\* The main thread handles a tripped signal and the registered handler that
\* _signal_handler calls raises: nothing between the handler and the main
\* thread's current frame catches, so the exception ends whatever call the
\* main thread was in and lands in its code.
DeliverSignalRaising(sig) ==
  /\ ~terminated
  /\ sig_pending[sig]
  /\ sig_handler[sig].f = "_signal_handler"
  /\ handlers[sig_handler[sig].sys][TypeOfSignal(sig)] # NoHandler
  /\ last_interruption[sig_handler[sig].sys] # NoInterruption
  /\ sig_pending' = [sig_pending EXCEPT ![sig] = FALSE]
  /\ HandlerRun(sig)
  /\ pc' = [pc EXCEPT ![Main] = "idle"]
  /\ err' = [err EXCEPT ![Main] = "Exception"]
  /\ raisers' = [raisers EXCEPT ![sig] = {}]
  /\ UNCHANGED <<scope, live, monitor_thread, handlers, config, statistics, last_interruption,
                 alert_seq, sig_handler, terminated, self, localVars,
                 shutdown_runs, final_stats>>
  /\ UNCHANGED callVars

\* --------------------------------------------------------- _monitor_sensors
\* Where a thread goes when _evaluate_conditions returns: the sampling thread
\* to its sleep, a direct caller back to its own code.
AfterEvaluation(t) == IF t \in LoopThreads THEN "sleep" ELSE "idle"

\* Where an exception raised under _evaluate_conditions lands: the except
\* clause of the loop, or the direct caller.
AfterException(t) == IF t \in LoopThreads THEN "backoff" ELSE "idle"

\* _simulate_sensor_reading: a failed sensor reads zeros; a working one reads
\* from the normal ranges or, one time in ten, from the extreme ones (the
\* ranges are sampled at a few points each).
SimulatedReadings(cfg) ==
  {SensorData(0, 0, 0, READ_FAILURE),
   SensorData(650, cfg.extreme_temp_max, 1000, FUNCTIONING),
   SensorData(150, 200, 100, FUNCTIONING)}

\* while self.running and not self._shutdown_requested:
\*     data = self._simulate_sensor_reading()
LoopWhile(t) ==
  /\ ~terminated
  /\ pc[t] = "while"
  /\ IF running[self[t]] /\ ~shutdown_requested[self[t]]
       THEN /\ \E r \in SimulatedReadings(config[self[t]]) : data' = [data EXCEPT ![t] = r]
            /\ pc' = [pc EXCEPT ![t] = "eval"]
       ELSE /\ pc' = [pc EXCEPT ![t] = "done"]
            /\ UNCHANGED data
  /\ UNCHANGED <<stationVars, signalVars, self, todo, eval, made, err, ghostVars>>
  /\ UNCHANGED restVars

\* _evaluate_conditions up to its first call of _generate_interruption.
Evaluate(t) ==
  /\ ~terminated
  /\ pc[t] = "eval"
  /\ LET cfg == config[self[t]]
         cs == EvaluateConditions(data[t], cfg)
     IN /\ eval' = [eval EXCEPT ![t] = [done |-> TRUE, cfg |-> cfg, calls |-> cs,
                                         handlers |-> handlers[self[t]]]]
        /\ todo' = [todo EXCEPT ![t] = cs]
        /\ pc' = [pc EXCEPT ![t] = IF cs = <<>> THEN AfterEvaluation(t) ELSE "generate"]
  /\ UNCHANGED <<stationVars, signalVars, self, data, made, err, ghostVars>>
  /\ UNCHANGED restVars

\* ---------------------------------------------------- _generate_interruption
\* self.monitor.handle_interruption(interruption): a call into the monitor,
\* which returns or raises.
HandleInterruptionOutcomes == {"returns", "raises"}

\* The Interruption is built and handed to the monitor.
Generate(t) ==
  /\ ~terminated
  /\ pc[t] = "generate"
  /\ alert_seq[self[t]] < scope.alerts
  /\ LET s == self[t]
         c == Head(todo[t])
     IN /\ made' = [made EXCEPT ![t] =
                      Append(@, Interruption(c.type, s, c.message, data[t], alert_seq[s] + 1))]
        /\ alert_seq' = [alert_seq EXCEPT ![s] = @ + 1]
  /\ \E outcome \in HandleInterruptionOutcomes :
       IF outcome = "returns"
         THEN /\ pc' = [pc EXCEPT ![t] = "save"]
              /\ UNCHANGED <<todo, err>>
         ELSE /\ pc' = [pc EXCEPT ![t] = AfterException(t)]
              /\ todo' = [todo EXCEPT ![t] = <<>>]
              /\ err' = IF t \in Callers THEN [err EXCEPT ![t] = "Exception"] ELSE err
  /\ UNCHANGED <<scope, live, running, shutdown_requested, monitor_thread, handlers, config,
                 statistics, last_interruption, signalVars, self, data, eval, ghostVars>>
  /\ UNCHANGED restVars

\* self._last_interruption = interruption
SaveInterruption(t) ==
  /\ ~terminated
  /\ pc[t] = "save"
  /\ last_interruption' = [last_interruption EXCEPT ![self[t]] = made[t][Len(made[t])]]
  /\ pc' = [pc EXCEPT ![t] = "raise"]
  /\ UNCHANGED <<scope, live, running, shutdown_requested, monitor_thread, handlers, config,
                 statistics, alert_seq, signalVars, self, localVars, err, ghostVars>>
  /\ UNCHANGED restVars

\* signal.raise_signal(type.value): the default action ends the process; a
\* Python handler runs at once when the main thread raised, and is left
\* pending for the main thread otherwise.
RaiseSignal(t) ==
  /\ ~terminated
  /\ pc[t] = "raise"
  /\ LET sig == SignalOf(Head(todo[t]).type)
     IN IF sig_handler[sig] = SIG_DFL
          THEN /\ terminated' = TRUE
               /\ UNCHANGED <<running, shutdown_requested, calls, sig_pending>>
          ELSE /\ UNCHANGED terminated
               /\ IF t = Main
                    THEN HandlerRun(sig) /\ UNCHANGED sig_pending
                    ELSE /\ sig_pending' = [sig_pending EXCEPT ![sig] = TRUE]
                         /\ UNCHANGED <<running, shutdown_requested, calls>>
  /\ pc' = [pc EXCEPT ![t] = "stat_total"]
  /\ UNCHANGED <<scope, live, monitor_thread, handlers, config, statistics, last_interruption,
                 alert_seq, sig_handler, self, localVars, err, shutdown_runs, final_stats>>
  /\ raisers' = IF sig_handler[SignalOf(Head(todo[t]).type)] # SIG_DFL /\ t # Main
                 THEN [raisers EXCEPT ![SignalOf(Head(todo[t]).type)] = @ \cup {self[t]}]
                 ELSE raisers
  /\ UNCHANGED callVars

\* self.statistics['total_interruptions'] += 1
StatTotal(t) ==
  /\ ~terminated
  /\ pc[t] = "stat_total"
  /\ statistics' = [statistics EXCEPT ![self[t]].total_interruptions = @ + 1]
  /\ pc' = [pc EXCEPT ![t] = "stat_kind"]
  /\ UNCHANGED <<scope, live, running, shutdown_requested, monitor_thread, handlers, config,
                 last_interruption, alert_seq, signalVars, self, localVars, err, ghostVars>>
  /\ UNCHANGED restVars

\* The per-kind counter, then the return into _evaluate_conditions.
StatKind(t) ==
  /\ ~terminated
  /\ pc[t] = "stat_kind"
  /\ statistics' = IF Head(todo[t]).type = SENSOR_FAILURE
                     THEN [statistics EXCEPT ![self[t]].sensor_failure = @ + 1]
                     ELSE [statistics EXCEPT ![self[t]].extreme_conditions = @ + 1]
  /\ todo' = [todo EXCEPT ![t] = Tail(@)]
  /\ pc' = [pc EXCEPT ![t] = IF Tail(todo[t]) = <<>> THEN AfterEvaluation(t) ELSE "generate"]
  /\ UNCHANGED <<scope, live, running, shutdown_requested, monitor_thread, handlers, config,
                 last_interruption, alert_seq, signalVars, self, data, eval, made, err,
                 ghostVars>>
  /\ UNCHANGED restVars

\* ------------------------------ the two `+= 1`, each as a load and a store
\* self.statistics['total_interruptions'] += 1: the value is loaded ...
StatTotalLoad(t) ==
  /\ ~terminated
  /\ pc[t] = "stat_total"
  /\ reg' = [reg EXCEPT ![t] = statistics[self[t]].total_interruptions]
  /\ pc' = [pc EXCEPT ![t] = "stat_total_store"]
  /\ UNCHANGED <<stationVars, signalVars, self, localVars, err, ghostVars, stations, pending,
                 snapshot, timer, interval, raisers, stop_time, reported, registered>>

\* ... and the value plus one is stored.
StatTotalStore(t) ==
  /\ ~terminated
  /\ pc[t] = "stat_total_store"
  /\ statistics' = [statistics EXCEPT ![self[t]].total_interruptions = reg[t] + 1]
  /\ pc' = [pc EXCEPT ![t] = "stat_kind"]
  /\ UNCHANGED <<scope, live, running, shutdown_requested, monitor_thread, handlers, config,
                 last_interruption, alert_seq, signalVars, self, localVars, err, ghostVars,
                 restVars>>

\* The statistics key of an alert kind.
KindKey(type) == IF type = SENSOR_FAILURE THEN "sensor_failure" ELSE "extreme_conditions"

\* The per-kind `+= 1`: the load ...
StatKindLoad(t) ==
  /\ ~terminated
  /\ pc[t] = "stat_kind"
  /\ reg' = [reg EXCEPT ![t] = statistics[self[t]][KindKey(Head(todo[t]).type)]]
  /\ pc' = [pc EXCEPT ![t] = "stat_kind_store"]
  /\ UNCHANGED <<stationVars, signalVars, self, localVars, err, ghostVars, stations, pending,
                 snapshot, timer, interval, raisers, stop_time, reported, registered>>

\* ... and the store, then the return into _evaluate_conditions.
StatKindStore(t) ==
  /\ ~terminated
  /\ pc[t] = "stat_kind_store"
  /\ statistics' = [statistics EXCEPT ![self[t]][KindKey(Head(todo[t]).type)] = reg[t] + 1]
  /\ todo' = [todo EXCEPT ![t] = Tail(@)]
  /\ pc' = [pc EXCEPT ![t] = IF Tail(todo[t]) = <<>> THEN AfterEvaluation(t) ELSE "generate"]
  /\ UNCHANGED <<scope, live, running, shutdown_requested, monitor_thread, handlers, config,
                 last_interruption, alert_seq, signalVars, self, data, eval, made, err,
                 ghostVars, restVars>>

\* The locals of one iteration, dead once it ends.
ClearLocals(t) ==
  /\ data' = [data EXCEPT ![t] = NoData]
  /\ todo' = [todo EXCEPT ![t] = <<>>]
  /\ eval' = [eval EXCEPT ![t] = NotEvaluated]
  /\ made' = [made EXCEPT ![t] = <<>>]

\* time.sleep(interval) and the polling loop after it, to the next iteration.
Sleep(t) ==
  /\ ~terminated
  /\ pc[t] = "sleep"
  /\ pc' = [pc EXCEPT ![t] = "while"]
  /\ ClearLocals(t)
  /\ UNCHANGED <<stationVars, signalVars, self, err, ghostVars>>
  /\ UNCHANGED restVars

\* except Exception: time.sleep(1)
Backoff(t) ==
  /\ ~terminated
  /\ pc[t] = "backoff"
  /\ pc' = [pc EXCEPT ![t] = "while"]
  /\ ClearLocals(t)
  /\ UNCHANGED <<stationVars, signalVars, self, err, ghostVars>>
  /\ UNCHANGED restVars

\* ------------------------------------------------------ the waits, timed
\* Time is counted in tenths of a second, as the reading intervals are.
JoinTimeout == 20   \* monitor_thread.join(timeout=2)

BackoffTime == 10   \* time.sleep(1)

PollTime == 1       \* time.sleep(0.1)

\* interval = random.uniform(min, max) (the two ends stand for the range);
\* time.sleep(interval) begins.
SleepEnter(t) ==
  /\ ~terminated
  /\ pc[t] = "sleep"
  /\ \E i \in {config[self[t]].min_reading_interval, config[self[t]].max_reading_interval} :
       /\ interval' = [interval EXCEPT ![t] = i]
       /\ timer' = [timer EXCEPT ![t] = i]
  /\ pc' = [pc EXCEPT ![t] = "sleeping"]
  /\ UNCHANGED <<stationVars, signalVars, self, localVars, err, ghostVars, stations, pending,
                 snapshot, reg, raisers, stop_time, reported, registered>>

\* time.sleep(interval) returns, whatever the flags say; the polling loop
\* begins: int(interval * 10) rounds of 0.1 s.
SleepReturn(t) ==
  /\ ~terminated
  /\ pc[t] = "sleeping"
  /\ timer[t] = 0
  /\ timer' = [timer EXCEPT ![t] = interval[t]]
  /\ pc' = [pc EXCEPT ![t] = "polling"]
  /\ UNCHANGED <<stationVars, signalVars, self, localVars, err, ghostVars, stations, pending,
                 snapshot, reg, interval, raisers, stop_time, reported, registered>>

\* The polling loop ends: _shutdown_requested is seen set (the break), or the
\* rounds are used up.
PollEnd(t) ==
  /\ ~terminated
  /\ pc[t] = "polling"
  /\ shutdown_requested[self[t]] \/ timer[t] = 0
  /\ timer' = [timer EXCEPT ![t] = 0]
  /\ interval' = [interval EXCEPT ![t] = 0]
  /\ pc' = [pc EXCEPT ![t] = "while"]
  /\ ClearLocals(t)
  /\ UNCHANGED <<stationVars, signalVars, self, err, ghostVars, stations, pending,
                 snapshot, reg, raisers, stop_time, reported, registered>>

\* except Exception: time.sleep(1) begins ...
BackoffEnter(t) ==
  /\ ~terminated
  /\ pc[t] = "backoff"
  /\ timer' = [timer EXCEPT ![t] = BackoffTime]
  /\ pc' = [pc EXCEPT ![t] = "backing_off"]
  /\ UNCHANGED <<stationVars, signalVars, self, localVars, err, ghostVars, stations, pending,
                 snapshot, reg, interval, raisers, stop_time, reported, registered>>

\* ... and returns.
BackoffReturn(t) ==
  /\ ~terminated
  /\ pc[t] = "backing_off"
  /\ timer[t] = 0
  /\ pc' = [pc EXCEPT ![t] = "while"]
  /\ ClearLocals(t)
  /\ UNCHANGED <<stationVars, signalVars, self, err, ghostVars, restVars>>

\* A join whose timeout is the station's longest wait (sleep and polling).
StopJoinEnterWholeWait(c) ==
  /\ ~terminated
  /\ pc[c] = "stop_join"
  /\ IF monitor_thread[self[c]] # NoThread /\ ~Free(monitor_thread[self[c]])
       THEN /\ timer' = [timer EXCEPT ![c] = 2 * config[self[c]].max_reading_interval]
            /\ pc' = [pc EXCEPT ![c] = "stop_joining"]
       ELSE /\ pc' = [pc EXCEPT ![c] = "stop_restore"]
            /\ UNCHANGED timer
  /\ UNCHANGED <<stationVars, signalVars, self, localVars, err, ghostVars, stations, pending,
                 snapshot, reg, interval, raisers, stop_time, reported, registered>>

\* if self.monitor_thread and self.monitor_thread.is_alive():
\*     self.monitor_thread.join(timeout=2) begins ...
StopJoinEnter(c) ==
  /\ ~terminated
  /\ pc[c] = "stop_join"
  /\ IF monitor_thread[self[c]] # NoThread /\ ~Free(monitor_thread[self[c]])
       THEN /\ timer' = [timer EXCEPT ![c] = JoinTimeout]
            /\ pc' = [pc EXCEPT ![c] = "stop_joining"]
       ELSE /\ pc' = [pc EXCEPT ![c] = "stop_restore"]
            /\ UNCHANGED timer
  /\ UNCHANGED <<stationVars, signalVars, self, localVars, err, ghostVars, stations, pending,
                 snapshot, reg, interval, raisers, stop_time, reported, registered>>

\* ... and returns: the thread has ended, or the timeout has run out.
StopJoinReturn(c) ==
  /\ ~terminated
  /\ pc[c] = "stop_joining"
  /\ Free(monitor_thread[self[c]]) \/ timer[c] = 0
  /\ timer' = [timer EXCEPT ![c] = 0]
  /\ pc' = [pc EXCEPT ![c] = "stop_restore"]
  /\ UNCHANGED <<stationVars, signalVars, self, localVars, err, ghostVars, stations, pending,
                 snapshot, reg, interval, raisers, stop_time, reported, registered>>

\* The threads inside a timed wait that has time left.
Waiting ==
  {t \in Contexts : pc[t] \in {"sleeping", "polling", "backing_off", "stop_joining"}
                     /\ timer[t] > 0}

\* The time to the first wait that runs out.
NextTimeout == CHOOSE d \in {timer[t] : t \in Waiting} : \A t \in Waiting : d <= timer[t]

\* The steps time is let pass in: up to the next timeout, and, while no call
\* is in progress, half-way to it (so that a call can begin inside a wait).
TimeSteps ==
  {NextTimeout} \cup (IF \A c \in Callers : pc[c] = "idle"
                        THEN {(NextTimeout + 1) \div 2} ELSE {})

\* Time passes. A caller's own statements take no time: it lets time pass
\* only inside a join that cannot return yet.
Tick ==
  /\ ~terminated
  /\ Waiting # {}
  /\ \A c \in Callers :
       \/ pc[c] = "idle"
       \/ pc[c] = "stop_joining" /\ timer[c] > 0 /\ ~Free(monitor_thread[self[c]])
  /\ \E d \in TimeSteps :
       /\ timer' = [t \in Contexts |-> IF t \in Waiting THEN timer[t] - d ELSE timer[t]]
       /\ stop_time' = [c \in Callers |->
                          IF pc[c] = "stop_joining" THEN stop_time[c] + d ELSE stop_time[c]]
  /\ UNCHANGED <<stationVars, signalVars, pc, self, localVars, err, ghostVars, stations,
                 pending, snapshot, reg, interval, raisers, reported, registered>>

\* ---------------------------------------------------- update_configuration
ConfigKeys == DOMAIN DefaultConfig

Kwarg(key, value) == [key |-> key, value |-> value]

\* The keys of a call that self.config does not hold: each is printed as an
\* invalid parameter.
UnknownKeys(kwargs) == {kwargs[i].key : i \in DOMAIN kwargs} \ ConfigKeys

\* The loop left at the first unknown key.
RECURSIVE ApplyKwargsUntilUnknown(_, _)
ApplyKwargsUntilUnknown(cfg, kwargs) ==
  IF kwargs = <<>> \/ Head(kwargs).key \notin ConfigKeys
    THEN cfg
    ELSE ApplyKwargsUntilUnknown([cfg EXCEPT ![Head(kwargs).key] = Head(kwargs).value],
                                 Tail(kwargs))

\* for key, value in kwargs.items(): a known key is set, any other is only
\* reported.
RECURSIVE ApplyKwargs(_, _)
ApplyKwargs(cfg, kwargs) ==
  IF kwargs = <<>>
    THEN cfg
    ELSE LET kw == Head(kwargs)
         IN ApplyKwargs(IF kw.key \in ConfigKeys THEN [cfg EXCEPT ![kw.key] = kw.value] ELSE cfg,
                        Tail(kwargs))

UpdateConfiguration(s, kwargs) ==
  /\ ~terminated
  /\ pc[Main] = "idle"
  /\ s \in live
  /\ config' = [config EXCEPT ![s] = ApplyKwargs(@, kwargs)]
  /\ reported' = [reported EXCEPT ![Main] = UnknownKeys(kwargs)]
  /\ UNCHANGED <<scope, live, running, shutdown_requested, monitor_thread, handlers,
                 statistics, last_interruption, alert_seq, signalVars, pc, self, localVars,
                 err, ghostVars, stations, pending, snapshot, reg, timer, interval, raisers, stop_time,
                 registered>>

\* update_configuration item by item, as another thread sees it: the call
\* enters the loop over kwargs.items() ...
UpdateEnter(c, s, kwargs) ==
  /\ ~terminated
  /\ pc[c] = "idle"
  /\ s \in live
  /\ pending' = [pending EXCEPT ![c] = kwargs]
  /\ reported' = [reported EXCEPT ![c] = {}]
  /\ pc' = [pc EXCEPT ![c] = IF kwargs = <<>> THEN "idle" ELSE "update"]
  /\ self' = [self EXCEPT ![c] = s]
  /\ err' = [err EXCEPT ![c] = "none"]
  /\ UNCHANGED <<stationVars, signalVars, localVars, ghostVars, stations, snapshot, reg,
                 timer, interval, raisers, stop_time, registered>>

\* ... and one iteration of the loop sets, or reports, one key.
UpdateItem(c) ==
  /\ ~terminated
  /\ pc[c] = "update"
  /\ config' = [config EXCEPT ![self[c]] = ApplyKwargs(@, <<Head(pending[c])>>)]
  /\ pending' = [pending EXCEPT ![c] = Tail(@)]
  /\ reported' = [reported EXCEPT ![c] = @ \cup UnknownKeys(<<Head(pending[c])>>)]
  /\ pc' = [pc EXCEPT ![c] = IF Tail(pending[c]) = <<>> THEN "idle" ELSE "update"]
  /\ UNCHANGED <<scope, live, running, shutdown_requested, monitor_thread, handlers,
                 statistics, last_interruption, alert_seq, signalVars, self, localVars, err,
                 ghostVars, stations, snapshot, reg, timer, interval, raisers, stop_time,
                 registered>>

\* ------------------------------- _evaluate_conditions, one config read at a time
\* The key of self.config each comparison reads.
KeyRead(at) ==
  CASE at = "read_extreme_tide" -> "extreme_tide_threshold"
    [] at = "read_high_tide" -> "high_tide_threshold"
    [] at = "read_temp_min" -> "extreme_temp_min"
    [] at = "read_temp_max" -> "extreme_temp_max"
    [] at = "read_wind_max" -> "extreme_wind_max"

ReadPoints ==
  {"read_extreme_tide", "read_high_tide", "read_temp_min", "read_temp_max", "read_wind_max"}

\* The comparison that follows a comparison: an `elif` is reached only when
\* the `if` before it was false.
ReadAfter(at, d, cfg) ==
  CASE at = "read_extreme_tide" ->
         IF d.water_level >= cfg.extreme_tide_threshold THEN "read_temp_min" ELSE "read_high_tide"
    [] at = "read_high_tide" -> "read_temp_min"
    [] at = "read_temp_min" ->
         IF d.temperature <= cfg.extreme_temp_min THEN "read_wind_max" ELSE "read_temp_max"
    [] at = "read_temp_max" -> "read_wind_max"
    [] at = "read_wind_max" -> "decide"

\* The keys of self.config one evaluation of `d` reads, given what it read.
KeysRead(d, cfg) ==
  IF d.state # FUNCTIONING
    THEN {}
    ELSE {"extreme_tide_threshold", "extreme_temp_min", "extreme_wind_max"}
         \cup (IF d.water_level >= cfg.extreme_tide_threshold THEN {} ELSE {"high_tide_threshold"})
         \cup (IF d.temperature <= cfg.extreme_temp_min THEN {} ELSE {"extreme_temp_max"})

\* The sensor-state check, which reads no configuration.
EvaluateEnter(t) ==
  /\ ~terminated
  /\ pc[t] = "eval"
  /\ IF data[t].state # FUNCTIONING
       THEN LET cs == EvaluateConditions(data[t], eval[t].cfg)
            IN /\ eval' = [eval EXCEPT ![t] = [done |-> TRUE, cfg |-> @.cfg, calls |-> cs,
                                                handlers |-> handlers[self[t]]]]
               /\ todo' = [todo EXCEPT ![t] = cs]
               /\ pc' = [pc EXCEPT ![t] = "generate"]
       ELSE /\ pc' = [pc EXCEPT ![t] = "read_extreme_tide"]
            /\ UNCHANGED <<eval, todo>>
  /\ UNCHANGED <<stationVars, signalVars, self, data, made, err, ghostVars, restVars>>

\* One comparison against self.config[key]; after the last one, the alert
\* is decided from the values the comparisons read.
EvaluateRead(t) ==
  /\ ~terminated
  /\ pc[t] \in ReadPoints
  /\ LET key == KeyRead(pc[t])
         cfg == [eval[t].cfg EXCEPT ![key] = config[self[t]][key]]
         then == ReadAfter(pc[t], data[t], cfg)
         cs == ExtremeCalls(data[t], cfg)
     IN IF then = "decide"
          THEN /\ eval' = [eval EXCEPT ![t] = [done |-> TRUE, cfg |-> cfg, calls |-> cs,
                                                handlers |-> handlers[self[t]]]]
               /\ todo' = [todo EXCEPT ![t] = cs]
               /\ pc' = [pc EXCEPT ![t] = IF cs = <<>> THEN AfterEvaluation(t) ELSE "generate"]
          ELSE /\ eval' = [eval EXCEPT ![t].cfg = cfg]
               /\ pc' = [pc EXCEPT ![t] = then]
               /\ UNCHANGED todo
  /\ UNCHANGED <<stationVars, signalVars, self, data, made, err, ghostVars, restVars>>

\* The calls of update_configuration made while the station samples: each
\* sets the tide and the wind thresholds together.
TornKwargs ==
  {<<Kwarg("extreme_tide_threshold", 700), Kwarg("extreme_wind_max", 900)>>,
   <<Kwarg("extreme_tide_threshold", 400), Kwarg("extreme_wind_max", 1200)>>}

\* The configurations the station has between two of those calls.
WholeConfigs == {DefaultConfig} \cup {ApplyKwargs(DefaultConfig, kwargs) : kwargs \in TornKwargs}

\* --------------------------------------------------------- get_system_state
\* The three values are read and copied one after the other into the dict
\* returned; each dict.copy() is one step of the interpreter.
GetSystemState(c, s) ==
  /\ ~terminated
  /\ pc[c] = "idle"
  /\ s \in live
  /\ snapshot' = [snapshot EXCEPT ![c] = [running |-> running[s],
                                          statistics |-> statistics[s],
                                          configuration |-> config[s],
                                          taken |-> TRUE]]
  /\ UNCHANGED <<stationVars, signalVars, pc, self, localVars, err, ghostVars, stations,
                 pending, reg, timer, interval, raisers, stop_time, reported, registered>>

\* --------------------------------------------------------- StationManager
\* The object a constructor call creates (the first unused one stands for it).
NewSystem == CHOOSE x \in Systems \ live : \A y \in Systems \ live : x <= y

\* add_station: a new InterruptionSystem is constructed (its monitor rebinds
\* both signals), given the overrides, and stored under the identifier.
AddStation(id, custom_config) ==
  /\ ~terminated
  /\ pc[Main] = "idle"
  /\ live # Systems
  /\ live' = live \cup {NewSystem}
  /\ sig_handler' = MonitorTable(NewSystem)
  /\ config' = [config EXCEPT ![NewSystem] = ApplyKwargs(DefaultConfig, custom_config)]
  /\ stations' = [stations EXCEPT ![id] = NewSystem]
  /\ reported' = [reported EXCEPT ![Main] = UnknownKeys(custom_config)]
  /\ err' = [err EXCEPT ![Main] = "none"]
  /\ UNCHANGED <<scope, running, shutdown_requested, monitor_thread, handlers, statistics,
                 last_interruption, alert_seq, sig_pending, terminated, pc, self, localVars,
                 ghostVars, pending, snapshot, reg, timer, interval, raisers, stop_time,
                 registered>>

\* The overrides handed to add_station.
CustomConfigs ==
  {<<>>, <<Kwarg("extreme_tide_threshold", 300)>>, <<Kwarg("min_reading_interval", 40)>>}

\* ------------------------------------------- update_configuration(partial)
MaxKwargs == 2   \* keyword arguments in one call

\* The keyword arguments a call is made of: known keys, and one the
\* configuration does not hold.
KwargItems ==
  {Kwarg("extreme_wind_max", 900),
   Kwarg("high_tide_threshold", 200), Kwarg("extreme_tide_threshold", 500),
   Kwarg("extreme_temp_max", 300), Kwarg("min_reading_interval", 40),
   Kwarg("max_reading_interval", 10), Kwarg("sampling_rate", 1)}

\* The calls: up to MaxKwargs arguments, in any order, no key twice.
PartialKwargs ==
  {kwargs \in UNION {[1..n -> KwargItems] : n \in 0..MaxKwargs} :
     \A i, j \in DOMAIN kwargs : i # j => kwargs[i].key # kwargs[j].key}

\* The handler each station's owner registers.
HandlerOf(s) == IF s = 1 THEN "h1" ELSE "h2"

\* ---------------------------------------- _evaluate_conditions, called directly
\* The main thread hands a reading of its own to a station's
\* _evaluate_conditions.
ForcedEvaluate(s, r) ==
  /\ ~terminated
  /\ pc[Main] = "idle"
  /\ s \in live
  /\ data' = [data EXCEPT ![Main] = r]
  /\ todo' = [todo EXCEPT ![Main] = <<>>]
  /\ eval' = [eval EXCEPT ![Main] = NotEvaluated]
  /\ made' = [made EXCEPT ![Main] = <<>>]
  /\ pc' = [pc EXCEPT ![Main] = "eval"]
  /\ self' = [self EXCEPT ![Main] = s]
  /\ err' = [err EXCEPT ![Main] = "none"]
  /\ UNCHANGED <<stationVars, signalVars, ghostVars>>
  /\ UNCHANGED restVars

\* The readings handed in: every sensor state, with numeric fields below, on
\* and above the thresholds.
ForcedReadings ==
  {SensorData(l, t, w, FUNCTIONING) : l \in {100, 250, 400}, t \in {-100, 200}, w \in {100, 1200}}
  \cup {SensorData(n[1], n[2], n[3], st) :
          n \in {<<0, 0, 0>>, <<250, 200, 100>>, <<400, -100, 1200>>},
          st \in {READ_FAILURE, DISCONNECTED}}

\* The configuration changes made between evaluations.
ForcedKwargs ==
  {<<Kwarg("extreme_tide_threshold", v)>> : v \in {250, 400}}
  \cup {<<Kwarg("extreme_temp_min", v)>> : v \in {-50, 200}}
  \cup {<<Kwarg("sampling_rate", 1), Kwarg("extreme_wind_max", 1200)>>}

\* A reading interval far longer than the join's timeout.
LongIntervalKwargs == {<<Kwarg("max_reading_interval", 36000)>>}

\* ---------------------------------------------------------- specifications
\* _evaluate_conditions and the _generate_interruption under it.
EvaluateStep(t) ==
  \/ Evaluate(t)
  \/ Generate(t)
  \/ SaveInterruption(t)
  \/ RaiseSignal(t)
  \/ StatTotal(t)
  \/ StatKind(t)

LoopStep(t) ==
  \/ LoopWhile(t)
  \/ EvaluateStep(t)
  \/ Sleep(t)
  \/ Backoff(t)

StopStep(c) ==
  \/ StopGuard(c)
  \/ StopSetRunning(c)
  \/ StopSetShutdown(c)
  \/ StopJoin(c)
  \/ StopRestore(c)
  \/ StopStats(c)

\* One station driven from the main thread.
Next ==
  \/ \E s \in Systems, type \in InterruptionType : RegisterHandler(s, type, "h1")
  \/ \E s \in Systems : StartSystem(s)
  \/ \E s \in Systems : StopSystem(Main, s)
  \/ StopStep(Main)
  \/ \E t \in LoopThreads : LoopStep(t)
  \/ \E sig \in Signals : DeliverSignal(sig)

Spec == Init /\ [][Next]_vars

\* The same, with room for a second sampling thread.
SpecRestart == InitStation(1, MaxThreads + 1, MaxAlerts) /\ [][Next]_vars

\* The same, with room for a second alert.
SpecAlerts == InitStation(1, MaxThreads, MaxAlerts + 1) /\ [][Next]_vars

\* stop_system called from the main thread and from another thread.
NextConc ==
  \/ \E s \in Systems : StartSystem(s)
  \/ \E c \in Callers, s \in Systems : StopSystem(c, s)
  \/ \E c \in Callers : StopStep(c)
  \/ \E t \in LoopThreads : LoopStep(t)
  \/ \E sig \in Signals : DeliverSignal(sig)

SpecConc == Init /\ [][NextConc]_vars

\* A station that is not started: its configuration is changed and readings
\* are handed to _evaluate_conditions from the main thread.
NextEval ==
  \/ \E kwargs \in ForcedKwargs : UpdateConfiguration(1, kwargs)
  \/ \E r \in ForcedReadings : ForcedEvaluate(1, r)
  \/ EvaluateStep(Main)

SpecEval == InitStation(1, MaxThreads, MaxAlerts + 1) /\ [][NextEval]_vars

\* Two stations, constructed one after the other, sampling side by side; each
\* gets its own handlers and is then started, once.
NextStations ==
  \/ \E s \in Systems, type \in InterruptionType :
       monitor_thread[s] = NoThread /\ RegisterHandler(s, type, HandlerOf(s))
  \/ \E s \in Systems : monitor_thread[s] = NoThread /\ StartSystem(s)
  \/ \E t \in LoopThreads : LoopStep(t)
  \/ \E sig \in Signals : DeliverSignal(sig)

SpecStations ==
  InitProcess({1, 2}, MonitorTable(2), MaxThreads + 1, MaxAlerts) /\ [][NextStations]_vars

\* The sampling loop with the configuration reads of its evaluation taken
\* one at a time.
LoopStepReads(t) ==
  \/ LoopWhile(t)
  \/ EvaluateEnter(t)
  \/ EvaluateRead(t)
  \/ Generate(t)
  \/ SaveInterruption(t)
  \/ RaiseSignal(t)
  \/ StatTotal(t)
  \/ StatKind(t)
  \/ Sleep(t)
  \/ Backoff(t)

\* The sampling loop with each counter update taken as a load and a store.
LoopStepCounters(t) ==
  \/ LoopWhile(t)
  \/ Evaluate(t)
  \/ Generate(t)
  \/ SaveInterruption(t)
  \/ RaiseSignal(t)
  \/ StatTotalLoad(t)
  \/ StatTotalStore(t)
  \/ StatKindLoad(t)
  \/ StatKindStore(t)
  \/ Sleep(t)
  \/ Backoff(t)

\* One station started, stopped and, once stopped, started again from the
\* main thread, with room for the sampling thread of the earlier start to be
\* still alive (the join of stop_system gives up after its timeout). The main
\* thread is kept in these calls, so the signals raised meanwhile stay pending.
NextCounters ==
  \/ \E s \in Systems : ~running[s] /\ StartSystem(s)
  \/ \E s \in Systems : StopSystem(Main, s)
  \/ StopStep(Main)
  \/ \E t \in LoopThreads : LoopStepCounters(t)

SpecCounters == InitStation(1, MaxThreads + 1, MaxAlerts + 2) /\ [][NextCounters]_vars

\* The sampling loop and stop_system with their waits timed.
LoopStepTimed(t) ==
  \/ LoopWhile(t)
  \/ EvaluateStep(t)
  \/ SleepEnter(t)
  \/ SleepReturn(t)
  \/ PollEnd(t)
  \/ BackoffEnter(t)
  \/ BackoffReturn(t)

StopStepTimed(c) ==
  \/ StopGuard(c)
  \/ StopSetRunning(c)
  \/ StopSetShutdown(c)
  \/ StopJoinEnter(c)
  \/ StopJoinReturn(c)
  \/ StopRestore(c)
  \/ StopStats(c)

\* One station, its reading interval made long or left alone, started and
\* stopped from the main thread while time passes. stop_system joins only
\* monitor_thread, the thread of the latest start, so a start is taken here
\* once the threads of earlier starts have ended.
NextTimed ==
  \/ \E kwargs \in LongIntervalKwargs : UpdateConfiguration(1, kwargs)
  \/ \E s \in Systems : (\A t \in LoopThreads : Free(t)) /\ StartSystem(s)
  \/ \E s \in Systems : StopSystem(Main, s)
  \/ StopStepTimed(Main)
  \/ \E t \in LoopThreads : LoopStepTimed(t)
  \/ Tick

SpecTimed == Init /\ [][NextTimed]_vars

\* One station whose handlers are registered and registered again, for either
\* kind, while it samples and the main thread dispatches its alerts. The
\* station is started, and started again once the signal that start_system
\* bound to _handle_shutdown has ended its loop; stop_system, which does not
\* touch self.handlers, is not called.
NextHandlers ==
  \/ \E s \in Systems, type \in InterruptionType, h \in HandlerNames : RegisterHandler(s, type, h)
  \/ \E s \in Systems : (\A t \in LoopThreads : Free(t)) /\ StartSystem(s)
  \/ \E t \in LoopThreads : LoopStep(t)
  \/ \E sig \in Signals : DeliverSignal(sig)

SpecHandlers == InitStation(1, MaxThreads, MaxAlerts + 1) /\ [][NextHandlers]_vars

\* One station driven from the main thread, whose monitor and whose
\* registered handlers return or raise.
NextFaults ==
  \/ \E s \in Systems, type \in InterruptionType : RegisterHandler(s, type, "h1")
  \/ \E s \in Systems : StartSystem(s)
  \/ \E s \in Systems : StopSystem(Main, s)
  \/ StopStep(Main)
  \/ \E t \in LoopThreads : LoopStep(t)
  \/ \E sig \in Signals : DeliverSignal(sig)
  \/ \E sig \in Signals : DeliverSignalRaising(sig)

SpecFaults == Init /\ [][NextFaults]_vars

\* The alerts station s can still create within the bound, less those its
\* threads are about to create for the readings they hold.
AlertsLeft(s) ==
  scope.alerts - alert_seq[s]
    - Cardinality({u \in LoopThreads :
                     /\ self[u] = s
                     /\ pc[u] \in {"eval", "generate"}
                     /\ EvaluateConditions(data[u], config[s]) # <<>>})

\* The `while` test, the readings being quiet ones once the alerts of the
\* bound are taken, so that no thread waits on the bound.
LoopWhileBounded(t) ==
  /\ LoopWhile(t)
  /\ (pc'[t] = "eval" /\ EvaluateConditions(data'[t], config[self[t]]) # <<>>) =>
       AlertsLeft(self[t]) > 0

LoopStepBounded(t) ==
  \/ LoopWhileBounded(t)
  \/ EvaluateStep(t)
  \/ Sleep(t)
  \/ Backoff(t)

\* One station started and stopped from the main thread, with room for a
\* second sampling thread.
NextLive ==
  \/ \E s \in Systems : StartSystem(s)
  \/ \E s \in Systems : StopSystem(Main, s)
  \/ StopStep(Main)
  \/ \E t \in LoopThreads : LoopStepBounded(t)
  \/ \E sig \in Signals : DeliverSignal(sig)

\* Every sampling thread is scheduled again and again, a call of stop_system
\* runs to its end, and the main thread gets to the signals tripped.
SpecLive ==
  /\ InitStation(1, MaxThreads + 1, MaxAlerts)
  /\ [][NextLive]_vars
  /\ \A t \in LoopThreads : WF_vars(LoopStepBounded(t))
  /\ WF_vars(StopStep(Main))
  /\ \A sig \in Signals : WF_vars(DeliverSignal(sig))

\* A running station whose configuration is changed from the main thread.
NextTorn ==
  \/ \E s \in Systems : StartSystem(s)
  \/ \E s \in Systems, kwargs \in TornKwargs : UpdateEnter(Main, s, kwargs)
  \/ UpdateItem(Main)
  \/ \E t \in LoopThreads : LoopStepReads(t)
  \/ \E sig \in Signals : DeliverSignal(sig)

SpecTorn == Init /\ [][NextTorn]_vars

\* A station that is not started, whose configuration is changed call after
\* call.
NextPartial == \E kwargs \in PartialKwargs : UpdateConfiguration(1, kwargs)

SpecPartial == Init /\ [][NextPartial]_vars

\* The calls that set the reading intervals, one at a time or both.
IntervalKwargs ==
  {<<Kwarg("min_reading_interval", v)>> : v \in {5, 40}}
  \cup {<<Kwarg("max_reading_interval", v)>> : v \in {10, 30}}
  \cup {<<Kwarg("min_reading_interval", 20), Kwarg("max_reading_interval", 25)>>}

\* Stations that are not started: their configuration is set by add_station
\* and changed by update_configuration.
NextConfig ==
  \/ \E s \in Systems, kwargs \in IntervalKwargs : UpdateConfiguration(s, kwargs)
  \/ \E id \in StationIds, cc \in CustomConfigs : AddStation(id, cc)

SpecConfig == Init /\ [][NextConfig]_vars

\* A running station whose state is read from the main thread.
NextSnapshot ==
  \/ \E s \in Systems : StartSystem(s)
  \/ \E s \in Systems : GetSystemState(Main, s)
  \/ \E t \in LoopThreads : LoopStep(t)
  \/ \E sig \in Signals : DeliverSignal(sig)

SpecSnapshot == Init /\ [][NextSnapshot]_vars

\* A manager to which stations are added, and started, under identifiers that
\* may repeat.
NextManager ==
  \/ \E id \in StationIds, cc \in CustomConfigs : AddStation(id, cc)
  \/ \E s \in Systems : StartSystem(s)
  \/ \E t \in LoopThreads : LoopStep(t)
  \/ \E sig \in Signals : DeliverSignal(sig)

SpecManager == InitManager(MaxThreads, MaxAlerts) /\ [][NextManager]_vars

\* ------------------------------------------------------------- properties
ConditionLabels(message) == {message.conditions[j].label : j \in DOMAIN message.conditions}

\* The labels an evaluation reported, in the calls it decided and in the
\* Interruption objects it built.
Labels(t) ==
  UNION {ConditionLabels(eval[t].calls[i].message) : i \in DOMAIN eval[t].calls}
  \cup UNION {ConditionLabels(made[t][i].message) : i \in DOMAIN made[t]}

\* The alerts handed to registered handlers so far.
Delivered == {calls[i].arg : i \in DOMAIN calls}

\* C1: start_system on a station that is running fails with
\* AlreadyRunningError and changes nothing: the flags keep their values and
\* no further sampling thread is launched.
C1_StartWhileRunningFails ==
  [][\A s \in Systems :
       (running[s] /\ StartSystem(s)) =>
         /\ err'[Main] = "AlreadyRunningError"
         /\ running' = running
         /\ shutdown_requested' = shutdown_requested
         /\ \A t \in LoopThreads : pc'[t] = pc[t]]_vars

\* C2: stop_system on a stopped station returns at its guard and changes
\* nothing (no flag, no signal handler, no statistics output), and the final
\* statistics are shown at most once between two starts.
C2_StopIdempotent ==
  [][/\ \A c \in Callers :
          (pc[c] = "stop_check" /\ ~running[self[c]] /\ pc'[c] # pc[c]) =>
            /\ pc'[c] = "idle"
            /\ err'[c] = "none"
            /\ UNCHANGED <<stationVars, signalVars, ghostVars>>
     /\ \A s \in Systems : final_stats'[s] <= 1]_vars

\* A second stop_system reaches its guard after a first one ran to its end.
C2_Witness ==
  /\ pc[Main] = "stop_check"
  /\ ~running[self[Main]]
  /\ final_stats[self[Main]] = 1

\* C3: of the calls of stop_system made concurrently on a running station,
\* at most one passes the guard and runs the shutdown body.
C3_OneShutdownBody == \A s \in Systems : shutdown_runs[s] <= 1

\* C4: a reading whose sensor is not functioning yields one SENSOR_FAILURE
\* alert naming the sensor state, with no condition label in its message and
\* no EXTREME_CONDITIONS alert, whatever its numbers and the configuration.
C4_SensorFailurePreempts ==
  \A t \in Contexts :
    (eval[t].done /\ data[t].state # FUNCTIONING) =>
      /\ Len(eval[t].calls) = 1
      /\ eval[t].calls[1].type = SENSOR_FAILURE
      /\ eval[t].calls[1].message.failure = data[t].state
      /\ Labels(t) = {}
      /\ \A i \in DOMAIN made[t] : made[t][i].type = SENSOR_FAILURE

\* A disconnected sensor whose numbers all reach the thresholds was evaluated
\* and its one alert generated.
C4_Witness ==
  /\ pc[Main] = "idle"
  /\ eval[Main].done
  /\ data[Main] = SensorData(400, -100, 1200, DISCONNECTED)
  /\ Len(made[Main]) = 1
  /\ last_interruption[1] = made[Main][1]
  /\ statistics[1].sensor_failure >= 1

\* C5: one evaluation raises at most one alert.
C5_AtMostOneAlert ==
  \A t \in Contexts :
    /\ Len(eval[t].calls) <= 1
    /\ Len(made[t]) <= 1

\* An evaluation in which the tide, the temperature and the wind all fired
\* ended with its single alert.
C5_Witness ==
  /\ pc[Main] = "idle"
  /\ eval[Main].done
  /\ Len(made[Main]) = 1
  /\ made[Main][1].type = EXTREME_CONDITIONS
  /\ Len(made[Main][1].message.conditions) = 3

\* C6: a functioning reading whose water level equals the extreme-tide
\* threshold is reported as "Extreme tide" and not as "High tide", and no
\* evaluation reports both labels.
C6_ExtremeTideBoundary ==
  \A t \in Contexts :
    eval[t].done =>
      /\ ~({"Extreme tide", "High tide"} \subseteq Labels(t))
      /\ (data[t].state = FUNCTIONING /\ data[t].water_level = eval[t].cfg.extreme_tide_threshold) =>
           ("Extreme tide" \in Labels(t) /\ "High tide" \notin Labels(t))

\* A level equal to the extreme-tide threshold, and above the high-tide one,
\* was evaluated and its alert generated.
C6_Witness ==
  /\ pc[Main] = "idle"
  /\ eval[Main].done
  /\ data[Main].state = FUNCTIONING
  /\ data[Main].water_level = eval[Main].cfg.extreme_tide_threshold
  /\ data[Main].water_level > eval[Main].cfg.high_tide_threshold
  /\ Len(made[Main]) = 1

\* C7 (as claimed): a functioning reading whose water level, temperature and
\* wind speed are each below every threshold set for them yields no alert.
C7_BelowEveryThreshold ==
  \A t \in Contexts :
    (/\ eval[t].done
     /\ data[t].state = FUNCTIONING
     /\ data[t].water_level < eval[t].cfg.high_tide_threshold
     /\ data[t].water_level < eval[t].cfg.extreme_tide_threshold
     /\ data[t].temperature < eval[t].cfg.extreme_temp_min
     /\ data[t].temperature < eval[t].cfg.extreme_temp_max
     /\ data[t].wind_speed < eval[t].cfg.extreme_wind_max) =>
      (eval[t].calls = <<>> /\ made[t] = <<>>)

\* C7 (amended): a functioning reading whose water level is below both tide
\* thresholds, whose wind speed is below the wind threshold and whose
\* temperature is strictly between the two temperature thresholds yields no
\* alert.
C7_InsideEveryThreshold ==
  \A t \in Contexts :
    (/\ eval[t].done
     /\ data[t].state = FUNCTIONING
     /\ data[t].water_level < eval[t].cfg.high_tide_threshold
     /\ data[t].water_level < eval[t].cfg.extreme_tide_threshold
     /\ data[t].temperature > eval[t].cfg.extreme_temp_min
     /\ data[t].temperature < eval[t].cfg.extreme_temp_max
     /\ data[t].wind_speed < eval[t].cfg.extreme_wind_max) =>
      (eval[t].calls = <<>> /\ made[t] = <<>>)

\* A quiet reading was evaluated and the call returned with nothing generated.
C7_Witness ==
  /\ pc[Main] = "idle"
  /\ eval[Main].done
  /\ data[Main] = SensorData(100, 200, 100, FUNCTIONING)
  /\ eval[Main].cfg = DefaultConfig
  /\ made[Main] = <<>>

\* C8: every alert generated while a handler is registered for its kind is
\* handed to that handler once, and what a handler receives is the alert of
\* the cycle that raised it: of the handler's kind, not handed over twice,
\* not handed over before its own signal was raised, and not missing once
\* its signal has been handled.
C8_HandlerGetsItsAlert ==
  /\ \A i \in DOMAIN calls : calls[i].arg.type = calls[i].type
  /\ \A i, j \in DOMAIN calls : i # j => calls[i].arg # calls[j].arg
  /\ \A t \in LoopThreads :
       made[t] # <<>> =>
         LET a == made[t][Len(made[t])]
         IN /\ pc[t] \in {"save", "raise"} => a \notin Delivered
            /\ (/\ pc[t] \in {"stat_total", "stat_kind", "sleep"}
                /\ ~sig_pending[SignalOf(a.type)]
                /\ eval[t].handlers[a.type] # NoHandler) => a \in Delivered

\* C9: dispatching an alert whose kind has no registered handler does
\* nothing: no handler runs, the process goes on and the station's running
\* and stop-request flags keep their values.
C9_NoHandlerNoEffect ==
  [][\A s \in Systems, sig \in Signals :
       (/\ s \in live
        /\ handlers[s][TypeOfSignal(sig)] = NoHandler
        /\ \/ sig_pending[sig] /\ ~sig_pending'[sig]
           \/ \E t \in Contexts :
                /\ pc[t] = "raise" /\ pc'[t] # "raise"
                /\ self[t] = s /\ SignalOf(Head(todo[t]).type) = sig) =>
         /\ running' = running
         /\ shutdown_requested' = shutdown_requested
         /\ calls' = calls
         /\ ~terminated']_vars

\* C10: only stop_system clears a station's running flag or sets its
\* stop-request flag.
C10_StopIsSoleCancellation ==
  [][\A s \in Systems :
       (\/ running[s] /\ ~running'[s]
        \/ ~shutdown_requested[s] /\ shutdown_requested'[s]) =>
         \E c \in Callers :
           /\ self[c] = s
           /\ pc[c] \in {"stop_running", "stop_shutdown"}
           /\ pc'[c] # pc[c]]_vars

\* C11: with several stations, an alert raised by one station invokes only
\* that station's handler and hands it that station's alert: every handler
\* invocation belongs to the station whose alert tripped the signal.
C11_NoCrossTalk ==
  [][calls' # calls =>
       LET c == calls'[Len(calls')]
           from == IF pc[Main] = "raise" /\ pc'[Main] # "raise"
                     THEN {self[Main]}
                     ELSE raisers[SignalOf(c.type)]
       IN /\ from = {c.sys}
          /\ c.arg.station_id = c.sys]_vars

\* C18: add_station with an identifier the manager already holds fails with
\* DuplicateStationError and changes nothing: the identifier keeps its
\* object, no object is constructed and the signal table is left alone.
C18_DuplicateStationRejected ==
  [][\A id \in StationIds :
       (stations[id] # NoSystem /\ \E cc \in CustomConfigs : AddStation(id, cc)) =>
         /\ err'[Main] = "DuplicateStationError"
         /\ stations' = stations
         /\ live' = live
         /\ config' = config
         /\ sig_handler' = sig_handler]_vars

\* C12: every snapshot get_system_state returns holds a whole statistics
\* record: its total is the sum of its two per-kind counts.
C12_SnapshotNotTorn ==
  \A c \in Callers :
    snapshot[c].taken =>
      snapshot[c].statistics.total_interruptions =
        snapshot[c].statistics.sensor_failure + snapshot[c].statistics.extreme_conditions

\* C13: every evaluation compares its reading against one configuration:
\* the values its comparisons read all belong to one of the configurations
\* the station had between two calls of update_configuration.
C13_OneConfigPerEvaluation ==
  \A t \in Contexts :
    eval[t].done =>
      \E whole \in WholeConfigs :
        \A key \in KeysRead(data[t], eval[t].cfg) : eval[t].cfg[key] = whole[key]

\* C14: no step lowers a statistics counter of a station.
C14_CountersMonotonic ==
  [][\A s \in Systems : \A key \in DOMAIN ZeroStatistics :
       statistics'[s][key] >= statistics[s][key]]_vars

\* A thread completes the `+= 1` of the total, or of its alert's kind.
CountsTotal(t) ==
  \/ pc[t] = "stat_total" /\ pc'[t] = "stat_kind"
  \/ pc[t] = "stat_total_store" /\ pc'[t] # pc[t]

CountsKind(t) ==
  \/ pc[t] = "stat_kind" /\ pc'[t] \notin {"stat_kind", "stat_kind_store"}
  \/ pc[t] = "stat_kind_store" /\ pc'[t] # pc[t]

\* C15: the counter updates made for an alert raise the total by exactly one
\* and the count of the alert's kind by exactly one and leave the other
\* counts as they were, and nothing else changes the statistics.
C15_ExactIncrements ==
  [][/\ \A t \in Contexts :
          /\ CountsTotal(t) =>
                statistics'[self[t]] =
                  [statistics[self[t]] EXCEPT !.total_interruptions = @ + 1]
          /\ CountsKind(t) =>
                statistics'[self[t]] =
                  [statistics[self[t]] EXCEPT ![KindKey(Head(todo[t]).type)] = @ + 1]
     /\ statistics' # statistics => \E t \in Contexts : CountsTotal(t) \/ CountsKind(t)]_vars

\* C16: update_configuration sets every known key it is given to the value
\* given, wherever unknown keys stand in the call, leaves every other field
\* as it was, adds no key to the configuration, and reports exactly the
\* unknown keys.
C16_PartialUpdate ==
  [][\A s \in Systems, kwargs \in PartialKwargs :
       UpdateConfiguration(s, kwargs) =>
         /\ DOMAIN config'[s] = ConfigKeys
         /\ \A key \in ConfigKeys :
              config'[s][key] =
                IF \E i \in DOMAIN kwargs : kwargs[i].key = key
                  THEN kwargs[CHOOSE i \in DOMAIN kwargs : kwargs[i].key = key].value
                  ELSE config[s][key]
         /\ reported'[Main] = UnknownKeys(kwargs)]_vars

\* A call that named an unknown key has returned, and fields of the
\* configuration hold values that calls gave them while others hold their
\* defaults.
C16_Witness ==
  /\ reported[Main] = {"sampling_rate"}
  /\ config[1].extreme_wind_max = 900
  /\ config[1].max_reading_interval = 10
  /\ config[1].high_tide_threshold = DefaultConfig.high_tide_threshold

\* C17: the configuration of every station has
\* min_reading_interval <= max_reading_interval.
C17_IntervalOrder ==
  \A s \in live : config[s].min_reading_interval <= config[s].max_reading_interval

\* C19: a call of stop_system never takes longer than the timeout of its
\* join, whatever the reading interval and wherever the sampling thread
\* stands in its wait.
C19_StopWithinJoinTimeout == \A c \in Callers : stop_time[c] <= JoinTimeout

\* stop_system has come out of its join after the full timeout while the
\* sampling thread is still inside a sleep of the long interval.
C19_Witness ==
  /\ pc[Main] = "stop_restore"
  /\ stop_time[Main] = JoinTimeout
  /\ config[1].max_reading_interval = 36000
  /\ \E t \in LoopThreads :
       /\ pc[t] = "sleeping"
       /\ interval[t] = 36000
       /\ timer[t] > JoinTimeout

\* C20: the handler table of a station holds, for each kind, the handler of
\* the latest register_handler call for that kind; a dispatched alert invokes
\* that handler and no earlier one; and a registration for one kind leaves
\* the other kind's handler and signal binding as they were.
C20_LatestHandlerOnly ==
  [][/\ handlers' = registered'
     /\ calls' # calls =>
          LET c == calls'[Len(calls')]
          IN c.handler = registered[c.sys][c.type]
     /\ \A s \in Systems, type \in InterruptionType :
          registered'[s][type] # registered[s][type] =>
            \A o \in InterruptionType \ {type} :
              /\ handlers'[s][o] = handlers[s][o]
              /\ sig_handler'[SignalOf(o)] = sig_handler[SignalOf(o)]]_vars

\* Two alerts of one kind were dispatched, the first to h1 and, after h2 was
\* registered over it, the second to h2, the other kind still holding h1.
C20_Witness ==
  /\ Len(calls) >= 2
  /\ calls[1].handler = "h1"
  /\ calls[2].handler = "h2"
  /\ calls[1].type = calls[2].type
  /\ calls[1].arg # calls[2].arg
  /\ \A o \in InterruptionType \ {calls[1].type} : handlers[1][o] = "h1"

\* The check a condition label belongs to.
TideLabels == {"Extreme tide", "High tide"}

TempLabels == {"Extreme low temp", "Extreme high temp"}

WindLabels == {"Extreme wind"}

\* The labels of a message, in the order the message lists them.
LabelsInOrder(message) == [i \in DOMAIN message.conditions |-> message.conditions[i].label]

\* At most one label of each check, and the checks in the order tide,
\* temperature, wind.
TideTempWindOrder(labels) ==
  \A i, j \in DOMAIN labels :
    i < j => \/ labels[i] \in TideLabels /\ labels[j] \in TempLabels \cup WindLabels
             \/ labels[i] \in TempLabels /\ labels[j] \in WindLabels

\* C26: for a functioning reading the tide, temperature and wind checks each
\* fire on their own thresholds alone; the evaluation makes one
\* EXTREME_CONDITIONS alert exactly when a check fires, and its message lists
\* one label for every check that fired, tide before temperature before wind.
C26_LabelsCollectedInOrder ==
  \A t \in Contexts :
    (eval[t].done /\ data[t].state = FUNCTIONING) =>
      LET cfg == eval[t].cfg
          tide == \/ data[t].water_level >= cfg.extreme_tide_threshold
                  \/ data[t].water_level >= cfg.high_tide_threshold
          temp == \/ data[t].temperature <= cfg.extreme_temp_min
                  \/ data[t].temperature >= cfg.extreme_temp_max
          wind == data[t].wind_speed >= cfg.extreme_wind_max
      IN /\ (tide \/ temp \/ wind) <=> Len(eval[t].calls) = 1
         /\ Len(eval[t].calls) <= 1
         /\ \A i \in DOMAIN eval[t].calls :
              LET labels == LabelsInOrder(eval[t].calls[i].message)
                  fired == {labels[k] : k \in DOMAIN labels}
              IN /\ eval[t].calls[i].type = EXTREME_CONDITIONS
                 /\ TideTempWindOrder(labels)
                 /\ tide <=> fired \cap TideLabels # {}
                 /\ temp <=> fired \cap TempLabels # {}
                 /\ wind <=> fired \cap WindLabels # {}
         /\ \A i \in DOMAIN made[t] :
              /\ made[t][i].type = EXTREME_CONDITIONS
              /\ made[t][i].message = eval[t].calls[1].message

\* A reading whose tide and wind fire and whose temperature does not was
\* evaluated, and its one alert lists the tide label and then the wind label.
C26_Witness ==
  /\ pc[Main] = "idle"
  /\ eval[Main].done
  /\ data[Main] = SensorData(400, 200, 1200, FUNCTIONING)
  /\ eval[Main].cfg = DefaultConfig
  /\ Len(made[Main]) = 1
  /\ LabelsInOrder(made[Main][1].message) = <<"Extreme tide", "Extreme wind">>

\* The sampling threads of station s that are inside an iteration of the
\* loop: past the `while` test and not yet back at it.
InCycle(s) ==
  {t \in LoopThreads : self[t] = s /\ pc[t] \notin {"unborn", "done", "while"}}

\* C24: at most one sampling thread of a station is inside an iteration of
\* the loop at any time, whatever calls of start_system and stop_system were
\* made.
C24_OneLoopThread == \A s \in Systems : Cardinality(InCycle(s)) <= 1

\* A call of stop_system on station s has run to its end since the last
\* start_system.
StopReturned(s) == final_stats[s] >= 1

\* C25: from the return of stop_system to the next start_system the station
\* creates no alert, changes no statistics counter and has no handler invoked
\* for it.
C25_QuietAfterStop ==
  [][\A s \in Systems :
       (StopReturned(s) /\ final_stats'[s] >= 1) =>
         /\ alert_seq'[s] = alert_seq[s]
         /\ statistics'[s] = statistics[s]
         /\ calls' # calls => calls'[Len(calls')].sys # s]_vars

\* The sampling loop part of C23: a sampling thread ends only at its `while`
\* test, with the station not running or a stop requested.
LoopEndsOnlyAtWhile ==
  [][\A t \in LoopThreads :
       (pc[t] # "done" /\ pc'[t] = "done") =>
         /\ pc[t] = "while"
         /\ ~running[self[t]] \/ shutdown_requested[self[t]]]_vars

\* C23: an exception raised while the station handles a reading (by the
\* monitor or by a registered handler) does not end the sampling thread, and
\* never reaches the main thread, which called start_system.
C23_ExceptionsStayInLoop ==
  [][/\ \A t \in LoopThreads :
          (pc[t] # "done" /\ pc'[t] = "done") =>
            /\ pc[t] = "while"
            /\ ~running[self[t]] \/ shutdown_requested[self[t]]
     /\ err'[Main] # "Exception"]_vars

\* C21: when a stop request reaches a station whose sampling thread is
\* inside the sleep of its wait between two readings, the thread has at most
\* one polling round of that sleep left, whatever interval it drew. (In the
\* polling rounds after the sleep the request is seen within one round.)
C21_WaitCancellable ==
  [][\A t \in LoopThreads :
       (/\ pc[t] = "sleeping"
        /\ ~shutdown_requested[self[t]]
        /\ shutdown_requested'[self[t]]) =>
         timer[t] <= PollTime]_vars

\* The time a sampling thread has spent in its wait between two readings: in
\* the sleep, and in the polling rounds after it.
Waited(t) ==
  IF pc[t] = "sleeping" THEN interval[t] - timer[t]
  ELSE IF pc[t] = "polling" THEN interval[t] + (interval[t] - timer[t])
  ELSE 0

\* C27: when a sampling thread of a running station with no stop request
\* comes out of its wait between two readings, the wait has lasted no less
\* than min_reading_interval and no more than max_reading_interval.
C27_WaitWithinInterval ==
  [][\A t \in LoopThreads :
       (/\ pc[t] = "polling" /\ pc'[t] = "while"
        /\ running[self[t]] /\ ~shutdown_requested[self[t]]) =>
         /\ Waited(t) >= config[self[t]].min_reading_interval
         /\ Waited(t) <= config[self[t]].max_reading_interval]_vars

\* stop_system, called on the running station of thread t, has just set both
\* flags while t is alive.
StopRequestedFor(t) ==
  /\ pc[t] \notin {"unborn", "done"}
  /\ pc[Main] = "stop_join"
  /\ self[Main] = self[t]

\* C22: a sampling thread that is alive when stop_system sets the flags of
\* its station ends (or the process does), whatever calls follow.
C22_StoppedLoopTerminates ==
  \A t \in LoopThreads : [](StopRequestedFor(t) => <>(pc[t] = "done" \/ terminated))

====
